---- MODULE Spec2Model ----
(***************************************************************************)
(* Model of pipeline_script.py: a linear WES variant-calling pipeline.     *)
(* main() discovers two FASTQ files, runs seven external steps through     *)
(* run_command (fail-fast), passes a disabled annotation stage and writes  *)
(* a spreadsheet report from the VCF.                                      *)
(***************************************************************************)
EXTENDS Integers, Sequences, FiniteSets, TLC

VARIABLES
    dir,        \* file names present in DATA_DIR when main() runs
    pc,         \* position of main(): "discover", a step label, "annotation", "report", "exited"
    blocked,    \* main() is inside subprocess.check_call, waiting for the child
    inflight,   \* labels of the external processes spawned and not yet exited
    started,    \* labels of the external steps / report step started in this run, in order
    codes,      \* exit codes of the external processes that exited in this run, in order
    status,     \* exit code of the python process (meaningful when pc = "exited")
    out,        \* messages printed in this run, in order
    r1_raw,     \* fastqs[0] (<<>> until assigned)
    r2_raw,     \* fastqs[1] (<<>> until assigned)
    paths,      \* output path variables computed so far in this run
    files,      \* labels of the steps whose output artifacts are on disk
    vcf,        \* the variant-call file at vcf_output
    report,     \* the spreadsheet at excel_output
    prev        \* what the previous run of the program computed: its inputs and paths

vars == <<dir, pc, blocked, inflight, started, codes, status, out,
          r1_raw, r2_raw, paths, files, vcf, report, prev>>

----------------------------------------------------------------------------
(* Bounds of the model *)

\* largest number of files in the input directory
MaxFiles == 3

\* largest number of lines in the variant-call file
MaxLines == 2

----------------------------------------------------------------------------
(* Configuration: module-level constants of the script, as character sequences *)

SAMPLE_ID == <<"P","a","t","i","e","n","t","_","T","e","s","t">>

DATA_DIR == <<"/","d","a","t","a">>

\* the suffix of the glob pattern  f"{DATA_DIR}/*.fastq.gz"
FASTQ_PATTERN_SUFFIX == <<".","f","a","s","t","q",".","g","z">>

\* Unicode code points: Python compares str values code point by code point
Ord(c) ==
    CASE c = "." -> 46 [] c = "/" -> 47 [] c = "1" -> 49
      [] c = "B" -> 66 [] c = "a" -> 97 [] c = "d" -> 100 [] c = "f" -> 102
      [] c = "g" -> 103 [] c = "q" -> 113 [] c = "s" -> 115 [] c = "t" -> 116
      [] c = "z" -> 122

\* labels of the external steps, in the order main() calls run_command
Required ==
    << "0. Trimming (Trimmomatic)",
       "1. Alignment (BWA)",
       "2. Sorting (Samtools)",
       "2-1. Indexing",
       "3. Mark Duplicates (GATK)",
       "3-1. Dedup Indexing",
       "4. Variant Calling (GATK HaplotypeCaller)" >>

\* label of the commented-out run_command call of the annotation stage
AnnotationLabel == "5. Annotation (ANNOVAR)"

\* exit codes an external process can end with (negative: killed by a signal)
ChildCodes == {-9, 0, 1, 2}

----------------------------------------------------------------------------
(* Input directory *)

\* file names the input directory may hold
Names ==
    { <<"a">> \o FASTQ_PATTERN_SUFFIX,
      <<"a","1">> \o FASTQ_PATTERN_SUFFIX,
      <<"B","1">> \o FASTQ_PATTERN_SUFFIX,
      FASTQ_PATTERN_SUFFIX,
      <<"a","1",".","f","q",".","g","z">> }

Dirs == { d \in SUBSET Names : Cardinality(d) <= MaxFiles }

HasSuffix(s, suf) ==
    /\ Len(s) >= Len(suf)
    /\ SubSeq(s, Len(s) - Len(suf) + 1, Len(s)) = suf

\* glob: "*" matches any run of characters, but never a leading dot
GlobMatches(name) ==
    /\ HasSuffix(name, FASTQ_PATTERN_SUFFIX)
    /\ name[1] # "."

\* glob.glob returns the full paths of the matching names
Glob(d) == { DATA_DIR \o <<"/">> \o n : n \in { m \in d : GlobMatches(m) } }

RECURSIVE StrLess(_, _)
\* Python's  a < b  on str
StrLess(a, b) ==
    IF a = <<>> THEN b # <<>>
    ELSE IF b = <<>> THEN FALSE
    ELSE IF Ord(Head(a)) # Ord(Head(b)) THEN Ord(Head(a)) < Ord(Head(b))
    ELSE StrLess(Tail(a), Tail(b))

RECURSIVE SortedDescending(_)
\* variant: sorted(..., reverse=True)
SortedDescending(S) ==
    IF S = {} THEN <<>>
    ELSE LET m == CHOOSE x \in S : \A y \in S \ {x} : StrLess(y, x)
         IN  <<m>> \o SortedDescending(S \ {m})

RECURSIVE Sorted(_)
\* sorted(...) of a collection of distinct strings
Sorted(S) ==
    IF S = {} THEN <<>>
    ELSE LET m == CHOOSE x \in S : \A y \in S \ {x} : StrLess(x, y)
         IN  <<m>> \o Sorted(S \ {m})

----------------------------------------------------------------------------
(* Output paths: f"{DATA_DIR}/{SAMPLE_ID}<suffix>" *)

\* variant: the sample identifier is taken from the name of the first input file
OutputPathFromInput(suffix) ==
    SubSeq(r1_raw, 1, Len(r1_raw) - Len(FASTQ_PATTERN_SUFFIX)) \o suffix

OutputPath(suffix) == DATA_DIR \o <<"/">> \o SAMPLE_ID \o suffix

\* the path variables main() assigns right before it starts the step `label`
PathsBefore(label) ==
    CASE label = Required[1] ->
             ( "r1_paired"   :> OutputPath(<<"_","R","1","_","p","a","i","r","e","d",".","f","q",".","g","z">>)
            @@ "r1_unpaired" :> OutputPath(<<"_","R","1","_","u","n","p","a","i","r","e","d",".","f","q",".","g","z">>)
            @@ "r2_paired"   :> OutputPath(<<"_","R","2","_","p","a","i","r","e","d",".","f","q",".","g","z">>)
            @@ "r2_unpaired" :> OutputPath(<<"_","R","2","_","u","n","p","a","i","r","e","d",".","f","q",".","g","z">>) )
      [] label = Required[2] ->
             ( "bam_output" :> OutputPath(<<".","b","a","m">>) )
      [] label = Required[3] ->
             ( "sorted_bam" :> OutputPath(<<".","s","o","r","t","e","d",".","b","a","m">>) )
      [] label = Required[5] ->
             ( "dedup_bam"    :> OutputPath(<<".","d","e","d","u","p",".","b","a","m">>)
            @@ "metrics_file" :> OutputPath(<<".","m","e","t","r","i","c","s",".","t","x","t">>) )
      [] label = Required[7] ->
             ( "vcf_output" :> OutputPath(<<".","v","c","f">>) )
      [] label = "annotation" ->
             ( "anno_output" :> OutputPath(<<".","a","n","n","o">>) )
      [] label = "report" ->
             ( "excel_output" :> OutputPath(<<"_","C","l","i","n","i","c","a","l","_","R","e","p","o","r","t",".","x","l","s","x">>) )
      [] OTHER -> << >>

----------------------------------------------------------------------------
(* The variant-call file and pandas.read_csv(sep="\t", comment='#', names=vcf_cols) *)

vcf_cols == <<"CHROM", "POS", "ID", "REF", "ALT", "QUAL", "FILTER", "INFO", "FORMAT", "SAMPLE">>

\* kinds of line of the file: a line starting with '#', an empty line, a line the
\* tokenizer rejects, and a tab-separated record of Len(vcf_cols) fields
Lines ==
    { [kind |-> "comment"],
      [kind |-> "blank"],
      [kind |-> "bad"],
      [kind |-> "record"] }

NoFile == [exists |-> FALSE, lines |-> <<>>]

VcfContents ==
    {NoFile} \cup
    { [exists |-> TRUE, lines |-> l] :
        l \in UNION { [1..n -> Lines] : n \in 0..MaxLines } }

\* the frame row of a record line: one cell per name of vcf_cols
Row(line) == [i \in 1..Len(vcf_cols) |-> "value"]

RECURSIVE Rows(_)
Rows(lines) ==
    IF lines = <<>> THEN <<>>
    ELSE IF Head(lines).kind = "record" THEN <<Row(Head(lines))>> \o Rows(Tail(lines))
    ELSE Rows(Tail(lines))

RECURSIVE RowsOfAllLines(_)
RowsOfAllLines(lines) ==
    IF lines = <<>> THEN <<>>
    ELSE IF Head(lines).kind = "blank" THEN RowsOfAllLines(Tail(lines))
    ELSE <<Row(Head(lines))>> \o RowsOfAllLines(Tail(lines))

\* variant: read_csv without comment='#', so that '#' lines become rows
ReadCsvNoComment(v) ==
    IF ~v.exists
    THEN { [ok |-> FALSE, rows |-> <<>>] }
    ELSE IF \E i \in DOMAIN v.lines : v.lines[i].kind = "bad"
    THEN { [ok |-> FALSE, rows |-> <<>>] }
    ELSE IF RowsOfAllLines(v.lines) = <<>>
    THEN { [ok |-> FALSE, rows |-> <<>>], [ok |-> TRUE, rows |-> <<>>] }
    ELSE { [ok |-> TRUE, rows |-> RowsOfAllLines(v.lines)] }

\* the possible results of read_csv: it raises (ok = FALSE) or returns a frame.
\* A file without any record gives an empty frame or EmptyDataError, depending
\* on the pandas release.
ReadCsv(v) ==
    IF ~v.exists
    THEN { [ok |-> FALSE, rows |-> <<>>] }
    ELSE IF \E i \in DOMAIN v.lines : v.lines[i].kind = "bad"
    THEN { [ok |-> FALSE, rows |-> <<>>] }
    ELSE IF Rows(v.lines) = <<>>
    THEN { [ok |-> FALSE, rows |-> <<>>], [ok |-> TRUE, rows |-> <<>>] }
    ELSE { [ok |-> TRUE, rows |-> Rows(v.lines)] }

NoReport == [exists |-> FALSE, columns |-> <<>>, rows |-> <<>>]

----------------------------------------------------------------------------
(* run_command *)

\* variant: subprocess.call, which returns the code and never raises
RaisesNever(code) == FALSE

\* subprocess.check_call raises CalledProcessError on a non-zero return code
Raises(code) == code # 0

\* variant: sys.exit(returncode), passing the child's exit code on
FailStatusOfChild(code) == code

\* sys.exit(1) in the except branch of run_command
FailStatus(code) == 1

\* the statement of main() that follows run_command(cmd, label)
After(label) ==
    IF \E i \in 1..(Len(Required) - 1) : Required[i] = label
    THEN Required[(CHOOSE i \in 1..(Len(Required) - 1) : Required[i] = label) + 1]
    ELSE IF label = Required[Len(Required)] THEN "annotation"
    ELSE "report"

\* variant: subprocess.Popen without wait; run_command returns at once
RunCommandStartNoWait(label) ==
    /\ pc = label
    /\ ~blocked
    /\ paths' = paths @@ PathsBefore(label)
    /\ out' = out \o << <<"[INFO] Starting Step", label>>, <<"[SUCCESS] completed", label>> >>
    /\ started' = Append(started, label)
    /\ inflight' = inflight \cup {label}
    /\ pc' = After(label)
    /\ UNCHANGED <<dir, blocked, codes, status, r1_raw, r2_raw, files, vcf, report, prev>>

\* run_command up to the spawn of the child inside check_call
RunCommandStart(label) ==
    /\ pc = label
    /\ ~blocked
    /\ paths' = paths @@ PathsBefore(label)
    /\ out' = out \o << <<"[INFO] Starting Step", label>> >>
    /\ started' = Append(started, label)
    /\ inflight' = inflight \cup {label}
    /\ blocked' = TRUE
    /\ UNCHANGED <<dir, pc, codes, status, r1_raw, r2_raw, files, vcf, report, prev>>

\* variant: on failure run_command removes the intermediate files before exiting
RunCommandExitCleanup(label, code) ==
    /\ label \in inflight
    /\ inflight' = inflight \ {label}
    /\ blocked' = FALSE
    /\ codes' = Append(codes, code)
    /\ IF Raises(code)
       THEN /\ out' = out \o << <<"[ERROR] failed", label>> >>
            /\ pc' = "exited"
            /\ status' = FailStatus(code)
            /\ files' = {}
            /\ vcf' = NoFile
       ELSE /\ out' = out \o << <<"[SUCCESS] completed", label>> >>
            /\ pc' = After(label)
            /\ status' = status
            /\ IF label = Required[Len(Required)]
               THEN vcf' \in VcfContents /\ files' = files
               ELSE vcf' = vcf /\ files' = files \cup {label}
    /\ UNCHANGED <<dir, started, r1_raw, r2_raw, paths, report, prev>>

\* the child exits with `code`; check_call returns or raises
RunCommandExit(label, code) ==
    /\ label \in inflight
    /\ inflight' = inflight \ {label}
    /\ blocked' = FALSE
    /\ codes' = Append(codes, code)
    /\ IF Raises(code)
       THEN /\ out' = out \o << <<"[ERROR] failed", label>> >>
            /\ pc' = "exited"
            /\ status' = FailStatus(code)
       ELSE /\ out' = out \o << <<"[SUCCESS] completed", label>> >>
            /\ pc' = After(label)
            /\ status' = status
    \* what the tool left on disk: its output on success, possibly a partial one otherwise
    /\ IF label = Required[Len(Required)]
       THEN /\ vcf' \in VcfContents
            /\ files' = files
       ELSE /\ vcf' = vcf
            /\ \E partial \in BOOLEAN :
                 files' = IF code = 0 \/ partial THEN files \cup {label} ELSE files
    /\ UNCHANGED <<dir, started, r1_raw, r2_raw, paths, report, prev>>

----------------------------------------------------------------------------
(* main *)

Discover ==
    /\ pc = "discover"
    /\ LET fastqs == Sorted(Glob(dir))
       IN  IF Len(fastqs) < 2
           THEN /\ out' = out \o << <<"[ERROR] No FASTQ files found", "">> >>
                /\ pc' = "exited"
                /\ status' = 1
                /\ UNCHANGED <<r1_raw, r2_raw>>
           ELSE /\ r1_raw' = fastqs[1]
                /\ r2_raw' = fastqs[2]
                /\ out' = out \o << <<"Found Input Files", "">> >>
                /\ pc' = Required[1]
                /\ status' = status
    /\ UNCHANGED <<dir, blocked, inflight, started, codes, paths, files, vcf, report, prev>>

\* variant: the run_command call of the annotation stage is not commented out
AnnotationEnabled ==
    /\ pc = "annotation"
    /\ ~blocked
    /\ paths' = paths @@ PathsBefore("annotation")
    /\ out' = out \o << <<"[INFO] Starting Step", AnnotationLabel>> >>
    /\ started' = Append(started, AnnotationLabel)
    /\ inflight' = inflight \cup {AnnotationLabel}
    /\ blocked' = TRUE
    /\ UNCHANGED <<dir, pc, codes, status, r1_raw, r2_raw, files, vcf, report, prev>>

\* variant: the annotation stage ends the run when the annotation database is absent
AnnotationFatal ==
    /\ pc = "annotation"
    /\ paths' = paths @@ PathsBefore("annotation")
    /\ out' = out \o << <<"[ERROR] failed", AnnotationLabel>> >>
    /\ pc' = "exited"
    /\ status' = 1
    /\ UNCHANGED <<dir, blocked, inflight, started, codes, r1_raw, r2_raw,
                   files, vcf, report, prev>>

\* Step 5: the try block whose run_command call is commented out
Annotation ==
    /\ pc = "annotation"
    /\ paths' = paths @@ PathsBefore("annotation")
    /\ out' = out \o << <<"[INFO] Step 5 (Annotation) skipped", "">> >>
    /\ pc' = "report"
    /\ UNCHANGED <<dir, blocked, inflight, started, codes, status, r1_raw, r2_raw,
                   files, vcf, report, prev>>

\* variant: Step 6 without its try/except; an exception ends the process with status 1
ReportUnguarded ==
    /\ pc = "report"
    /\ \E df \in ReadCsv(vcf), wrote \in BOOLEAN :
         /\ paths' = IF df.ok THEN paths @@ PathsBefore("report") ELSE paths
         /\ report' = IF df.ok /\ wrote
                      THEN [exists |-> TRUE, columns |-> vcf_cols, rows |-> df.rows]
                      ELSE report
         /\ out' = out \o
                    IF df.ok /\ wrote
                    THEN << <<">>> Generating Clinical Report", "">>,
                            <<"[SUCCESS] Excel Report Saved", "">>,
                            <<">>> All Pipeline Steps Completed Successfully", "">> >>
                    ELSE << <<">>> Generating Clinical Report", "">> >>
         /\ status' = IF df.ok /\ wrote THEN 0 ELSE 1
    /\ started' = Append(started, "report")
    /\ pc' = "exited"
    /\ UNCHANGED <<dir, blocked, inflight, codes, r1_raw, r2_raw, files, vcf, prev>>

\* Step 6 and the end of main(): read the VCF, write the spreadsheet, return
Report ==
    /\ pc = "report"
    /\ \E df \in ReadCsv(vcf), wrote \in BOOLEAN :
         /\ paths' = IF df.ok THEN paths @@ PathsBefore("report") ELSE paths
         /\ report' = IF df.ok /\ wrote
                      THEN [exists |-> TRUE, columns |-> vcf_cols, rows |-> df.rows]
                      ELSE report
         /\ out' = out \o << <<">>> Generating Clinical Report", "">>,
                             IF df.ok /\ wrote
                             THEN <<"[SUCCESS] Excel Report Saved", "">>
                             ELSE <<"[WARNING] Could not generate Excel report", "">>,
                             <<">>> All Pipeline Steps Completed Successfully", "">> >>
    /\ started' = Append(started, "report")
    /\ pc' = "exited"
    /\ status' = 0
    /\ UNCHANGED <<dir, blocked, inflight, codes, r1_raw, r2_raw, files, vcf, prev>>

\* the program is invoked again, on an input directory of any contents
Restart ==
    /\ pc = "exited"
    /\ dir' \in Dirs
    /\ prev' = [inputs |-> <<r1_raw, r2_raw>>, paths |-> paths]
    /\ pc' = "discover"
    /\ blocked' = FALSE
    /\ inflight' = {}
    /\ started' = <<>>
    /\ codes' = <<>>
    /\ status' = 0
    /\ out' = <<>>
    /\ r1_raw' = <<>>
    /\ r2_raw' = <<>>
    /\ paths' = <<>>
    /\ files' = {}
    /\ vcf' = NoFile
    /\ report' = NoReport

Init ==
    /\ dir \in Dirs
    /\ pc = "discover"
    /\ blocked = FALSE
    /\ inflight = {}
    /\ started = <<>>
    /\ codes = <<>>
    /\ status = 0
    /\ out = <<>>
    /\ r1_raw = <<>>
    /\ r2_raw = <<>>
    /\ paths = <<>>
    /\ files = {}
    /\ vcf = NoFile
    /\ report = NoReport
    /\ prev = [inputs |-> << <<>>, <<>> >>, paths |-> <<>>]

Next ==
    \/ Discover
    \/ \E i \in DOMAIN Required : RunCommandStart(Required[i])
    \/ \E label \in inflight, code \in ChildCodes : RunCommandExit(label, code)
    \/ Annotation
    \/ Report
    \/ Restart

Spec == Init /\ [][Next]_vars

----------------------------------------------------------------------------
(* Properties *)

Printed(tag) == \E j \in DOMAIN out : out[j][1] = tag

\* the seven required steps of this run have all exited with code 0
AllRequiredSucceeded ==
    /\ Len(codes) >= Len(Required)
    /\ \A i \in 1..Len(Required) : codes[i] = 0

\* the steps in declaration order, the report step last
Declared == Required \o <<"report">>

\* C1: fail-fast halt. Once the external process of a required step has exited
\* non-zero, that step is the last one started in the run (no required step, no
\* annotation stage and no report step follows it), no process is in flight,
\* and the program has exited with code 1.
FailFastHalt ==
    \A i \in DOMAIN codes :
        codes[i] # 0 =>
            /\ i = Len(codes)
            /\ i = Len(started)
            /\ started[i] \in { Required[k] : k \in DOMAIN Required }
            /\ inflight = {}
            /\ ~Printed("[INFO] Step 5 (Annotation) skipped")
            /\ ~Printed(">>> Generating Clinical Report")
            /\ pc = "exited"
            /\ status = 1

\* the fourth step (indexing) was killed by a signal after three steps succeeded
FailFastHaltWitness ==
    /\ codes = <<0, 0, 0, -9>>
    /\ started = SubSeq(Required, 1, 4)
    /\ pc = "exited"
    /\ status = 1

\* C2: exit-code contract. A terminated run has exit code 1 exactly when input
\* discovery found fewer than two matching files or some required step exited
\* non-zero; every other terminated run has exit code 0, ended after the report
\* step, and printed the completion message last.
ExitCodeContract ==
    pc = "exited" =>
        /\ status = 1 <=>
             \/ Cardinality({ n \in dir : GlobMatches(n) }) < 2
             \/ \E i \in DOMAIN codes : codes[i] # 0
        /\ status # 1 =>
             /\ status = 0
             /\ started = Declared
             /\ out[Len(out)][1] = ">>> All Pipeline Steps Completed Successfully"

\* a run that ended with code 1 on a directory holding a single matching file
ExitCodeContractWitness ==
    /\ pc = "exited"
    /\ status = 1
    /\ Cardinality({ n \in dir : GlobMatches(n) }) = 1
    /\ Cardinality(dir) = 3
    /\ started = <<>>

\* C3: report failure is non-fatal. When all required steps succeeded and the
\* report step ran without producing the spreadsheet, the warning was printed,
\* the completion message was printed last, and the exit code is 0.
ReportFailureNonFatal ==
    (AllRequiredSucceeded /\ "report" \in { started[i] : i \in DOMAIN started } /\ ~report.exists) =>
        /\ Printed("[WARNING] Could not generate Excel report")
        /\ ~Printed("[SUCCESS] Excel Report Saved")
        /\ out[Len(out)][1] = ">>> All Pipeline Steps Completed Successfully"
        /\ pc = "exited"
        /\ status = 0

\* the report step failed on a variant-call file with a malformed line
ReportFailureNonFatalWitness ==
    /\ AllRequiredSucceeded
    /\ started = Declared
    /\ vcf.exists
    /\ \E i \in DOMAIN vcf.lines : vcf.lines[i].kind = "bad"
    /\ ~report.exists
    /\ pc = "exited"
    /\ status = 0

\* the full paths of the names of the directory that end in ".fastq.gz" and are
\* not hidden
MatchingInputs ==
    { DATA_DIR \o <<"/">> \o n :
        n \in { m \in dir : Len(m) > Len(FASTQ_PATTERN_SUFFIX)
                            /\ m[1] # "."
                            /\ \A k \in 1..Len(FASTQ_PATTERN_SUFFIX) :
                                 m[Len(m) - Len(FASTQ_PATTERN_SUFFIX) + k] = FASTQ_PATTERN_SUFFIX[k] } }

\* C4: input discovery. Once discovery has run: with at least two matching files,
\* read-1 is the lexically smallest matching name and read-2 the second smallest;
\* with fewer than two, the run has exited with code 1 and no step was started.
InputDiscovery ==
    pc # "discover" =>
        IF Cardinality(MatchingInputs) >= 2
        THEN /\ r1_raw \in MatchingInputs
             /\ r2_raw \in MatchingInputs
             /\ StrLess(r1_raw, r2_raw)
             /\ \A m \in MatchingInputs \ {r1_raw, r2_raw} : StrLess(r2_raw, m)
        ELSE /\ pc = "exited"
             /\ status = 1
             /\ started = <<>>
             /\ inflight = {}
             /\ r1_raw = <<>> /\ r2_raw = <<>>

\* three matching files: "B1" sorts before "a", which sorts before "a1"
InputDiscoveryWitness ==
    /\ Cardinality(MatchingInputs) = 3
    /\ r1_raw = DATA_DIR \o <<"/", "B", "1">> \o FASTQ_PATTERN_SUFFIX
    /\ r2_raw = DATA_DIR \o <<"/", "a">> \o FASTQ_PATTERN_SUFFIX
    /\ pc = Required[1]

\* C5: step ordering. The steps started in a run are a prefix of the declared
\* sequence; a step is started only when every step before it has exited with
\* code 0; at most one external process is in flight.
StepOrdering ==
    /\ Len(started) <= Len(Declared)
    /\ \A i \in DOMAIN started : started[i] = Declared[i]
    /\ \A i \in DOMAIN started :
         \A j \in 1..(i - 1) : j \in DOMAIN codes /\ codes[j] = 0
    /\ Cardinality(inflight) <= 1
    /\ inflight \subseteq { started[i] : i \in DOMAIN started }
    /\ inflight # {} => started[Len(started)] \in inflight

\* variant calling is in flight, the six steps before it have exited with 0
StepOrderingWitness ==
    /\ inflight = { Required[7] }
    /\ started = Required
    /\ codes = <<0, 0, 0, 0, 0, 0>>

\* the lines of the variant-call file that are neither '#' lines nor empty
DataLines == { i \in DOMAIN vcf.lines : vcf.lines[i].kind \notin {"comment", "blank"} }

ColumnsAsDeclared ==
    report.columns =
        <<"CHROM", "POS", "ID", "REF", "ALT", "QUAL", "FILTER", "INFO", "FORMAT", "SAMPLE">>

\* C6 (as amended): report content. A spreadsheet the report step produced has the
\* columns CHROM, POS, ID, REF, ALT, QUAL, FILTER, INFO, FORMAT, SAMPLE in this
\* order and one data row per line of the variant-call file that is neither a
\* '#' line nor an empty line, each row with one cell per column.
ReportContentDataLines ==
    report.exists =>
        /\ ColumnsAsDeclared
        /\ Len(report.rows) = Cardinality(DataLines)
        /\ \A i \in DOMAIN report.rows : Len(report.rows[i]) = Len(report.columns)

\* C6 (as claimed): a spreadsheet produced from a variant-call file that holds
\* records has the declared columns and as many data rows as the file has lines.
ReportContentLineCount ==
    (report.exists /\ \E i \in DOMAIN vcf.lines : vcf.lines[i].kind = "record") =>
        /\ ColumnsAsDeclared
        /\ Len(report.rows) = Len(vcf.lines)

\* a spreadsheet of one row written from a file of a '#' line and a record
ReportContentWitness ==
    /\ report.exists
    /\ Len(vcf.lines) = 2
    /\ vcf.lines[1].kind = "comment"
    /\ vcf.lines[2].kind = "record"
    /\ Len(report.rows) = 1

\* C7: path determinism. Every output path a run computes is equal to the path
\* the previous run computed for the same variable, whatever the two runs found
\* in the input directory and whatever the tools wrote.
PathDeterminism ==
    \A k \in (DOMAIN paths) \cap (DOMAIN prev.paths) : paths[k] = prev.paths[k]

\* two complete runs that read different input files
PathDeterminismWitness ==
    /\ pc = "exited"
    /\ "excel_output" \in DOMAIN paths
    /\ "excel_output" \in DOMAIN prev.paths
    /\ "r1_paired" \in DOMAIN paths
    /\ prev.inputs[1] # <<>>
    /\ prev.inputs[1] # r1_raw
    /\ prev.inputs[2] # r2_raw

AnnotationDisabled ==
    /\ AnnotationLabel \notin inflight
    /\ \A i \in DOMAIN started : started[i] # AnnotationLabel
    /\ \A j \in DOMAIN out : out[j][2] # AnnotationLabel
    /\ AllRequiredSucceeded =>
         \/ pc = "annotation" /\ ~Printed("[INFO] Step 5 (Annotation) skipped")
         \/ /\ pc \in {"report", "exited"}
            /\ Len(out) >= 2 * Len(Required) + 2
            /\ out[2 * Len(Required) + 1] = <<"[SUCCESS] completed", Required[Len(Required)]>>
            /\ out[2 * Len(Required) + 2] = <<"[INFO] Step 5 (Annotation) skipped", "">>
            /\ pc = "report" => Len(out) = 2 * Len(Required) + 2
            /\ pc = "exited" => out[2 * Len(Required) + 3] = <<">>> Generating Clinical Report", "">>

\* control is at the report step right after the 'skipped' message
AnnotationDisabledWitness ==
    /\ pc = "report"
    /\ out[Len(out)] = <<"[INFO] Step 5 (Annotation) skipped", "">>
    /\ codes = <<0, 0, 0, 0, 0, 0, 0>>

\* C10: no retry. In a run no step is started twice and none is started after an
\* exit with a non-zero code; and no step of a run removes or empties what
\* earlier steps left on disk.
NoRetryNoCleanup ==
    /\ [](/\ \A i, j \in DOMAIN started : started[i] = started[j] => i = j
          /\ \A i \in DOMAIN codes : codes[i] # 0 => Len(started) = i)
    /\ [][pc # "exited" =>
            /\ files \subseteq files'
            /\ vcf.exists => vcf' = vcf
            /\ report.exists => report' = report]_vars

\* the run ended on a failed third step, with the partial output of that step
\* and the outputs of the two steps before it on disk
NoRetryNoCleanupWitness ==
    /\ pc = "exited"
    /\ started = SubSeq(Required, 1, 3)
    /\ codes = <<0, 0, 1>>
    /\ files = { Required[1], Required[2], Required[3] }

====
